---- MODULE Spec2Model ----
(***************************************************************************)
(* Model of backend/app.py: the contest timer kept in the singleton row of *)
(* contest_state, the handlers that read and write it, and the process-    *)
(* wide cache beside it.                                                   *)
(*                                                                         *)
(* Time is counted in ticks, a fraction of a second, so that the           *)
(* truncations to whole seconds the handlers perform (int(...)) are        *)
(* visible.  One handler runs to completion in one step; the clock         *)
(* advances between handlers.                                              *)
(*                                                                         *)
(* Specifications:                                                         *)
(*   Spec          the contest endpoints over the first seconds            *)
(*   CatalogSpec   the problem endpoints and the cache over one TTL        *)
(*   MutationSpec  the admin problem endpoints, every body, every failure  *)
(*   AdminSpec     every admin endpoint, with and without the token        *)
(*   RaceSpec      two admin_add_problem requests, statement by statement  *)
(*   PollSpec      a last-update poll interleaved with contest admin calls *)
(*   ReadRaceSpec  a problem read interleaved with problem admin calls     *)
(*   LiveSpec      a contest left to the clock and the poll, with fairness *)
(*   PoolSpec      the connections the handlers take from the pool         *)
(***************************************************************************)
EXTENDS Integers, Sequences, FiniteSets, TLC

VARIABLES
    now,              \* the clock datetime.now() and NOW() read, in ticks
    contest_state,    \* the rows of table contest_state
    problems,         \* the rows of table problems
    samples,          \* the rows of table samples, in id order
    cache,            \* the dict cache
    cache_timestamp,  \* the dict cache_timestamp
    request,          \* the request the last handler served
    params,           \* its problem id, JSON body and failing statement
    response,         \* the response it returned
    body,             \* the problem list or problem that response carries
    before,           \* the stores as they were when that request arrived
    observed,         \* remaining time the client's latest status read gave
    inflight,         \* the requests served side by side, each with the
                      \* statement it is at and what its transaction wrote
    committed,        \* those of them that committed, in commit order
    checked_out       \* the connections of connection_pool handed out by
                      \* getconn and not given back by putconn

vars == <<now, contest_state, problems, samples, cache, cache_timestamp,
          request, params, response, body, before, observed, inflight,
          committed, checked_out>>

(***************************************************************************)
(* Bounds of the model.                                                    *)
(***************************************************************************)
TicksPerSecond == 2      \* resolution of the clock
SecondsPerMinute == 2    \* length of a minute, scaled down
MaxNow == 6              \* the clock stops here
MaxMinutes == 1          \* largest countdown, duration or extension requested
MaxTime == 8             \* no stored time is pushed past this
MaxDuration == 2         \* no stored duration is pushed past this
MaxSkew == 1             \* the catalog is followed this far past one TTL

TicksPerMinute == SecondsPerMinute * TicksPerSecond

Minutes == 0..MaxMinutes

NULL == -1               \* SQL NULL / Python None in a time or number column

(***************************************************************************)
(* Configuration and inputs.                                               *)
(***************************************************************************)
ADMIN_PASSWORD == "admin123"

NoToken == "None"        \* headers.get('X-Admin-Token') without the header

Tokens == {ADMIN_PASSWORD, "guess", NoToken}

\* What the datastore does to a handler: serves it, gives no connection
\* (get_db_connection returns None), or raises on the first statement.
DbOutcomes == {"ok", "no_connection", "query_error"}

(***************************************************************************)
(* Time arithmetic.                                                        *)
(***************************************************************************)
\* timedelta(minutes=m), in ticks
timedelta(m) == m * TicksPerMinute

\* Python's int(x) of a number of seconds given in ticks: truncation
\* towards zero.
int_seconds(t) == IF t >= 0 THEN t \div TicksPerSecond
                  ELSE -((-t) \div TicksPerSecond)

max(a, b) == IF a >= b THEN a ELSE b

(***************************************************************************)
(* Table contest_state.  Column defaults are those of the schema.          *)
(***************************************************************************)
DEFAULT_STATUS == "pending"
DEFAULT_TOTAL_DURATION == 0
DEFAULT_IS_VISIBLE == FALSE

\* INSERT INTO contest_state (...) VALUES (1, ...) with every column given
ContestRow(status, start_time, end_time, total, is_visible, updated_at) ==
    [id |-> 1, status |-> status, start_time |-> start_time,
     end_time |-> end_time, total_duration_minutes |-> total,
     is_visible |-> is_visible, updated_at |-> updated_at]

\* SELECT ... FROM contest_state WHERE id = 1, fetchone(): the rows found
contest_row == {r \in contest_state : r.id = 1}

\* the row itself, when there is one
the_contest == CHOOSE r \in contest_state : r.id = 1

\* UPDATE contest_state SET ... WHERE id = 1; set[r] is the row r as the SET
\* clause leaves it
update_contest(set) ==
    {IF r.id = 1 THEN set[r] ELSE r : r \in contest_state}

\* INSERT INTO contest_state ... VALUES row ON CONFLICT (id) DO UPDATE SET ...
upsert_contest(row, set) ==
    IF contest_row = {} THEN contest_state \cup {row} ELSE update_contest(set)

(***************************************************************************)
(* Requests and responses.                                                 *)
(***************************************************************************)
\* a and b are the minutes of the body (countdown and duration, or the one
\* duration or extension), flag its is_visible; db is what the datastore
\* does to this request
Request(op, token, db, a, b, flag) ==
    [op |-> op, token |-> token, db |-> db, a |-> a, b |-> b, flag |-> flag]

NoRequest == Request("none", NoToken, "ok", 0, 0, FALSE)

\* What a problem endpoint is called with: problem_id of the URL (or
\* data['id']), data = request.json, and fail_at, the statement of its
\* transaction that raises (0: none).
Params(problem_id, data, fail_at) ==
    [problem_id |-> problem_id, data |-> data, fail_at |-> fail_at]

NoData == [id |-> "none"]

NoParams == Params("none", NoData, 0)

\* jsonify({...}), code: the fields of the body that the timer endpoints use
Response(code, status, remaining_time, is_visible, total, last_update) ==
    [code |-> code, status |-> status, remaining_time |-> remaining_time,
     is_visible |-> is_visible, total_duration_minutes |-> total,
     last_update |-> last_update]

\* a body that carries only a status or an error
Reply(code, status) == Response(code, status, 0, FALSE, 0, 0)

NoResponse == Reply(0, "none")

\* no problem list and no problem in the response
NoBody == <<>>

\* any token accepted, as long as the header is there
check_admin_token_present(token) == token # NoToken

check_admin_token(token) == token = ADMIN_PASSWORD

AdminOps == {"admin_schedule_contest", "admin_start_contest", "admin_add_time",
             "admin_add_precountdown_time", "admin_stop_contest",
             "admin_toggle_visibility", "admin_reset_contest"}

catalog == <<problems, samples, cache, cache_timestamp>>

\* The requests that are served side by side where interleavings are under
\* study; everywhere else requests are served one at a time and none of
\* these is ever made.
Procs == {1, 2}

\* pc: 0 before the request arrives, then the number of the statement it is
\* about to execute, the commit counting as one more, and after that the
\* last pc, when it has responded with code.  wrote, marked and inserted are
\* the uncommitted writes of its transaction: the problem row written, the
\* positions of the sample rows deleted, the sample rows inserted.  waited
\* tells that a statement of it had to wait for a lock.
Tx(pc, data, wrote, marked, inserted, waited, code) ==
    [pc |-> pc, data |-> data, wrote |-> wrote, marked |-> marked,
     inserted |-> inserted, waited |-> waited, code |-> code]

NoTx == Tx(0, NoData, FALSE, {}, <<>>, FALSE, 0)

\* what the handlers served one at a time, each releasing the connection it
\* took in a finally of its own, leave as it is
race == <<inflight, committed, checked_out>>

\* the datastore and the cache, as one value
Stores ==
    [contest_state |-> contest_state, problems |-> problems,
     samples |-> samples, cache |-> cache,
     cache_timestamp |-> cache_timestamp]

\* a handler that answers without writing the contest row
Refuse(code, status) ==
    /\ response' = Reply(code, status)
    /\ UNCHANGED contest_state

(***************************************************************************)
(* The two computations of the timer.                                      *)
(***************************************************************************)
\* the comparison written strictly: a contest is not started (or ended) at
\* the very tick its time comes
auto_transition_strict(result, t) ==
    IF result.status = "pending" /\ result.start_time # NULL
       /\ result.start_time < t
    THEN "running"
    ELSE IF result.status = "running" /\ result.end_time # NULL
            /\ result.end_time < t
    THEN "ended"
    ELSE result.status

\* both thresholds applied in one call: pending goes straight to ended
auto_transition_chained(result, t) ==
    IF result.status = "pending" /\ result.start_time # NULL
       /\ result.start_time <= t
    THEN IF result.end_time # NULL /\ result.end_time <= t
         THEN "ended" ELSE "running"
    ELSE IF result.status = "running" /\ result.end_time # NULL
            /\ result.end_time <= t
    THEN "ended"
    ELSE result.status

\* an ended contest whose end_time lies ahead again taken for a running one
auto_transition_reviving(result, t) ==
    IF result.status = "pending" /\ result.start_time # NULL
       /\ result.start_time <= t
    THEN "running"
    ELSE IF result.status = "running" /\ result.end_time # NULL
            /\ result.end_time <= t
    THEN "ended"
    ELSE IF result.status = "ended" /\ result.end_time # NULL
            /\ result.end_time > t
    THEN "running"
    ELSE result.status

\* the elif left out: a running contest is never ended
auto_transition_start_only(result, t) ==
    IF result.status = "pending" /\ result.start_time # NULL
       /\ result.start_time <= t
    THEN "running"
    ELSE result.status

\* new_status: the auto-transition get_last_update decides on at time t
auto_transition(result, t) ==
    IF result.status = "pending" /\ result.start_time # NULL
       /\ result.start_time <= t
    THEN "running"
    ELSE IF result.status = "running" /\ result.end_time # NULL
            /\ result.end_time <= t
    THEN "ended"
    ELSE result.status

\* the clamp at zero forgotten
remaining_time_unclamped(contest, t) ==
    IF contest.status = "pending" /\ contest.start_time # NULL
    THEN int_seconds(contest.start_time - t)
    ELSE IF contest.status = "running" /\ contest.end_time # NULL
    THEN int_seconds(contest.end_time - t)
    ELSE 0

\* the difference taken the wrong way round for a running contest
remaining_time_reversed(contest, t) ==
    IF contest.status = "pending" /\ contest.start_time # NULL
    THEN max(0, int_seconds(contest.start_time - t))
    ELSE IF contest.status = "running" /\ contest.end_time # NULL
    THEN max(0, int_seconds(t - contest.end_time))
    ELSE 0

\* remaining_time as get_contest_status computes it from the row at time t
remaining_time(contest, t) ==
    IF contest.status = "pending" /\ contest.start_time # NULL
    THEN max(0, int_seconds(contest.start_time - t))
    ELSE IF contest.status = "running" /\ contest.end_time # NULL
    THEN max(0, int_seconds(contest.end_time - t))
    ELSE 0

(***************************************************************************)
(* GET /api/contest/status                                                 *)
(***************************************************************************)
\* the status read applying the auto-transition itself, as the poll does
get_contest_status_updating(db) ==
    /\ request' = Request("get_contest_status", NoToken, db, 0, 0, FALSE)
    /\ UNCHANGED catalog
    /\ IF db # "ok"
       THEN Refuse(500, "error")
       ELSE IF contest_row = {}
       THEN /\ response' = Response(200, "pending", 0, FALSE, 0, 0)
            /\ UNCHANGED contest_state
       ELSE LET new_status == auto_transition(the_contest, now)
                contest == [the_contest EXCEPT !.status = new_status]
            IN  /\ contest_state' = update_contest(
                       [r \in contest_state |->
                           [r EXCEPT !.status = new_status]])
                /\ response' = Response(200, contest.status,
                                        remaining_time(contest, now),
                                        contest.is_visible,
                                        contest.total_duration_minutes, 0)

get_contest_status(db) ==
    /\ request' = Request("get_contest_status", NoToken, db, 0, 0, FALSE)
    /\ UNCHANGED <<contest_state, catalog>>
    /\ IF db # "ok"
       THEN response' = Reply(500, "error")
       ELSE IF contest_row = {}
       THEN response' = Response(200, "pending", 0, FALSE, 0, 0)
       ELSE response' = Response(200, the_contest.status,
                                 remaining_time(the_contest, now),
                                 the_contest.is_visible,
                                 the_contest.total_duration_minutes, 0)

(***************************************************************************)
(* GET /api/contest/last-update                                            *)
(***************************************************************************)
\* int(ts) if ts else other, for EXTRACT(EPOCH FROM updated_at) of a column
epoch_or(updated_at, other) ==
    IF updated_at = NULL \/ updated_at = 0 THEN other
    ELSE int_seconds(updated_at)

\* the poll creating the row it did not find
get_last_update_creating(db) ==
    /\ request' = Request("get_last_update", NoToken, db, 0, 0, FALSE)
    /\ UNCHANGED catalog
    /\ IF db # "ok"
       THEN Refuse(500, "error")
       ELSE IF contest_row = {}
       THEN /\ contest_state' =
                   {ContestRow(DEFAULT_STATUS, NULL, NULL,
                               DEFAULT_TOTAL_DURATION, DEFAULT_IS_VISIBLE,
                               now)}
            /\ response' = Reply(200, "no_contest")
       ELSE LET result == the_contest
                timestamp == epoch_or(result.updated_at, 0)
                new_status == auto_transition(result, now)
            IN  IF new_status # result.status
                THEN /\ contest_state' = update_contest(
                            [r \in contest_state |->
                                [r EXCEPT !.status = new_status,
                                          !.updated_at = now]])
                     /\ response' = Response(200, "ok", 0, FALSE, 0,
                                             epoch_or(now, timestamp))
                ELSE /\ UNCHANGED contest_state
                     /\ response' = Response(200, "ok", 0, FALSE, 0, timestamp)

get_last_update(db) ==
    /\ request' = Request("get_last_update", NoToken, db, 0, 0, FALSE)
    /\ UNCHANGED catalog
    /\ IF db # "ok"
       THEN Refuse(500, "error")
       ELSE IF contest_row = {}
       THEN Refuse(200, "no_contest")
       ELSE LET result == the_contest
                timestamp == epoch_or(result.updated_at, 0)
                new_status == auto_transition(result, now)
            IN  IF new_status # result.status
                THEN /\ contest_state' = update_contest(
                            [r \in contest_state |->
                                [r EXCEPT !.status = new_status,
                                          !.updated_at = now]])
                     /\ response' = Response(200, "ok", 0, FALSE, 0,
                                             epoch_or(now, timestamp))
                ELSE /\ UNCHANGED contest_state
                     /\ response' = Response(200, "ok", 0, FALSE, 0, timestamp)

(***************************************************************************)
(* POST /api/admin/contest/...                                             *)
(***************************************************************************)
admin_schedule_contest(token, db, countdown_minutes, duration_minutes) ==
    LET start_time == now + timedelta(countdown_minutes)
        end_time == start_time + timedelta(duration_minutes)
    IN  /\ request' = Request("admin_schedule_contest", token, db,
                              countdown_minutes, duration_minutes, FALSE)
        /\ UNCHANGED catalog
        /\ IF ~check_admin_token(token) THEN Refuse(401, "error")
           ELSE IF db # "ok" THEN Refuse(500, "error")
           ELSE /\ contest_state' = upsert_contest(
                       ContestRow("pending", start_time, end_time,
                                  duration_minutes, FALSE, now),
                       [r \in contest_state |->
                           [r EXCEPT !.status = "pending",
                                     !.start_time = start_time,
                                     !.end_time = end_time,
                                     !.total_duration_minutes =
                                         duration_minutes,
                                     !.updated_at = now]])
                /\ response' = Reply(200, "success")

admin_start_contest(token, db, duration_minutes) ==
    LET end_time == now + timedelta(duration_minutes)
    IN  /\ request' = Request("admin_start_contest", token, db,
                              duration_minutes, 0, FALSE)
        /\ UNCHANGED catalog
        /\ IF ~check_admin_token(token) THEN Refuse(401, "error")
           ELSE IF db # "ok" THEN Refuse(500, "error")
           ELSE /\ contest_state' = upsert_contest(
                       ContestRow("running", now, end_time,
                                  duration_minutes, FALSE, now),
                       [r \in contest_state |->
                           [r EXCEPT !.status = "running",
                                     !.start_time = now,
                                     !.end_time = end_time,
                                     !.total_duration_minutes =
                                         duration_minutes,
                                     !.updated_at = now]])
                /\ response' = Reply(200, "success")

\* add-time refusing only when there is no row at all
no_active_contest_row_only(rows) == rows = {}

\* not contest or not contest['end_time'], for the rows the SELECT found
no_active_contest(rows) ==
    rows = {} \/ \A r \in rows : r.end_time = NULL

\* "active contest" read as a running one: add-time refused once the
\* contest is pending or ended
admin_add_time_running_only(token, db, additional_minutes) ==
    /\ request' = Request("admin_add_time", token, db,
                          additional_minutes, 0, FALSE)
    /\ UNCHANGED catalog
    /\ IF ~check_admin_token(token) THEN Refuse(401, "error")
       ELSE IF db # "ok" THEN Refuse(500, "error")
       ELSE IF no_active_contest(contest_row) THEN Refuse(400, "error")
       ELSE IF the_contest.status # "running" THEN Refuse(400, "error")
       ELSE IF the_contest.total_duration_minutes = NULL
       THEN Refuse(500, "error")
       ELSE LET contest == the_contest
                new_end_time == contest.end_time
                                    + timedelta(additional_minutes)
                new_duration == contest.total_duration_minutes
                                    + additional_minutes
            IN  /\ contest_state' = update_contest(
                       [r \in contest_state |->
                           [r EXCEPT !.end_time = new_end_time,
                                     !.total_duration_minutes = new_duration,
                                     !.updated_at = now]])
                /\ response' = Reply(200, "success")

admin_add_time(token, db, additional_minutes) ==
    /\ request' = Request("admin_add_time", token, db,
                          additional_minutes, 0, FALSE)
    /\ UNCHANGED catalog
    /\ IF ~check_admin_token(token) THEN Refuse(401, "error")
       ELSE IF db # "ok" THEN Refuse(500, "error")
       ELSE IF no_active_contest(contest_row) THEN Refuse(400, "error")
       ELSE IF the_contest.total_duration_minutes = NULL
       THEN Refuse(500, "error")    \* None + int raises; rolled back
       ELSE LET contest == the_contest
                new_end_time == contest.end_time
                                    + timedelta(additional_minutes)
                new_duration == contest.total_duration_minutes
                                    + additional_minutes
            IN  /\ contest_state' = update_contest(
                       [r \in contest_state |->
                           [r EXCEPT !.end_time = new_end_time,
                                     !.total_duration_minutes = new_duration,
                                     !.updated_at = now]])
                /\ response' = Reply(200, "success")

\* the delay applied to the end of the contest as well
precountdown_set_both(r, new_start_time, t) ==
    [r EXCEPT !.start_time = new_start_time,
              !.end_time = IF r.end_time = NULL THEN NULL
                           ELSE r.end_time + (new_start_time - r.start_time),
              !.updated_at = t]

\* SET start_time = %s, updated_at = NOW()
precountdown_set(r, new_start_time, t) ==
    [r EXCEPT !.start_time = new_start_time, !.updated_at = t]

admin_add_precountdown_time(token, db, additional_minutes) ==
    /\ request' = Request("admin_add_precountdown_time", token, db,
                          additional_minutes, 0, FALSE)
    /\ UNCHANGED catalog
    /\ IF ~check_admin_token(token) THEN Refuse(401, "error")
       ELSE IF db # "ok" THEN Refuse(500, "error")
       ELSE IF contest_row = {} THEN Refuse(400, "error")
       ELSE IF the_contest.status # "pending" THEN Refuse(400, "error")
       ELSE IF the_contest.start_time = NULL THEN Refuse(400, "error")
       ELSE LET new_start_time == the_contest.start_time
                                      + timedelta(additional_minutes)
            IN  /\ contest_state' = update_contest(
                       [r \in contest_state |->
                           precountdown_set(r, new_start_time, now)])
                /\ response' = Reply(200, "success")

\* the status ended, the end time left as it was
stop_set_status_only(r, t) ==
    [r EXCEPT !.status = "ended", !.updated_at = t]

\* SET status = 'ended', end_time = NOW(), updated_at = NOW()
stop_set(r, t) ==
    [r EXCEPT !.status = "ended", !.end_time = t, !.updated_at = t]

admin_stop_contest(token, db) ==
    /\ request' = Request("admin_stop_contest", token, db, 0, 0, FALSE)
    /\ UNCHANGED catalog
    /\ IF ~check_admin_token(token) THEN Refuse(401, "error")
       ELSE IF db # "ok" THEN Refuse(500, "error")
       ELSE /\ contest_state' = upsert_contest(
                   ContestRow("ended", NULL, now, DEFAULT_TOTAL_DURATION,
                              DEFAULT_IS_VISIBLE, now),
                   [r \in contest_state |-> stop_set(r, now)])
            /\ response' = Reply(200, "success")

admin_toggle_visibility(token, db, is_visible) ==
    /\ request' = Request("admin_toggle_visibility", token, db, 0, 0,
                          is_visible)
    /\ UNCHANGED catalog
    /\ IF ~check_admin_token(token) THEN Refuse(401, "error")
       ELSE IF db # "ok" THEN Refuse(500, "error")
       ELSE /\ contest_state' = upsert_contest(
                   ContestRow(DEFAULT_STATUS, NULL, NULL,
                              DEFAULT_TOTAL_DURATION, is_visible, now),
                   [r \in contest_state |->
                       [r EXCEPT !.is_visible = is_visible,
                                 !.updated_at = now]])
            /\ response' = Reply(200, "success")

admin_reset_contest(token, db) ==
    /\ request' = Request("admin_reset_contest", token, db, 0, 0, FALSE)
    /\ UNCHANGED catalog
    /\ IF ~check_admin_token(token) THEN Refuse(401, "error")
       ELSE IF db # "ok" THEN Refuse(500, "error")
       ELSE /\ contest_state' = upsert_contest(
                   ContestRow("pending", NULL, NULL, 0, FALSE, now),
                   [r \in contest_state |->
                       [r EXCEPT !.status = "pending",
                                 !.start_time = NULL,
                                 !.end_time = NULL,
                                 !.total_duration_minutes = 0,
                                 !.is_visible = FALSE,
                                 !.updated_at = now]])
            /\ response' = Reply(200, "success")

(***************************************************************************)
(* The clock, the server loop, and what a client has seen.                 *)
(***************************************************************************)
Idle == request = NoRequest

\* time passes between requests
Tick ==
    /\ Idle
    /\ now < MaxNow
    /\ now' = now + 1
    /\ UNCHANGED <<contest_state, catalog, request, params, response, body,
                   before, observed, race>>

\* stored times and durations stay within the bounds of the model
Bounded(rows) ==
    \A r \in rows : /\ r.start_time <= MaxTime
                    /\ r.end_time <= MaxTime
                    /\ r.total_duration_minutes <= MaxDuration

\* one request served, start to finish, at the current time; before keeps
\* the stores it found
Serve(Handler) ==
    /\ Idle
    /\ Handler
    /\ Bounded(contest_state')
    /\ before' = Stores
    /\ UNCHANGED <<now, observed, params, body, race>>

\* The client receives the response.  observed is the remaining time of its
\* latest status read if that read said running, NULL otherwise, and NULL
\* again after an admin request that succeeded.
Return ==
    /\ ~Idle
    /\ request' = NoRequest
    /\ params' = NoParams
    /\ response' = NoResponse
    /\ body' = NoBody
    /\ observed' =
           IF request.op \in AdminOps /\ response.code = 200 THEN NULL
           ELSE IF request.op = "get_contest_status" /\ response.code = 200
           THEN IF response.status = "running"
                THEN response.remaining_time ELSE NULL
           ELSE observed
    /\ before' = Stores
    /\ UNCHANGED <<now, contest_state, catalog, race>>

(***************************************************************************)
(* Tables problems and samples.  A row of samples carries no id here: the  *)
(* rows are kept in the order of their serial ids, which is the order they *)
(* were inserted in, and nothing else is made of the ids.                  *)
(***************************************************************************)
\* the problem ids in use, in the order ORDER BY id gives them
IdsInOrder == <<"P1", "P2">>

ProblemIds == {IdsInOrder[k] : k \in 1..Len(IdsInOrder)}

\* SELECT id, title, origin, time_limit, memory_limit FROM problems
\* ORDER BY id
list_problems(rows) ==
    LET ids == SelectSeq(IdsInOrder, LAMBDA i : \E r \in rows : r.id = i)
    IN  [k \in 1..Len(ids) |->
            LET p == CHOOSE r \in rows : r.id = ids[k]
            IN  [id |-> p.id, title |-> p.title, origin |-> p.origin,
                 time_limit |-> p.time_limit,
                 memory_limit |-> p.memory_limit]]

\* the VALUES of the INSERT and of the UPDATE: the row that request.json
\* describes for problem id
values_row(id, data) ==
    [id |-> id, title |-> data.title, origin |-> data.origin,
     time_limit |-> data.timeLimit, memory_limit |-> data.memoryLimit,
     statement |-> data.statement, input |-> data.input,
     output |-> data.output, constraints |-> data.constraints,
     note |-> data.note, vj_link |-> data.vjLink]

\* ON CONFLICT (id) DO UPDATE SET title = EXCLUDED.title, ...
excluded_set(r, row) ==
    [r EXCEPT !.title = row.title, !.origin = row.origin,
              !.time_limit = row.time_limit,
              !.memory_limit = row.memory_limit,
              !.statement = row.statement, !.input = row.input,
              !.output = row.output, !.constraints = row.constraints,
              !.note = row.note, !.vj_link = row.vj_link]

\* INSERT INTO problems (...) VALUES row ON CONFLICT (id) DO UPDATE SET ...
upsert_problem(rows, row) ==
    IF \E r \in rows : r.id = row.id
    THEN {IF r.id = row.id THEN excluded_set(r, row) ELSE r : r \in rows}
    ELSE rows \cup {row}

\* the UPDATE written as the upsert of admin_add_problem
update_problem_creating(rows, id, row) ==
    IF \E r \in rows : r.id = id
    THEN {IF r.id = id THEN [row EXCEPT !.id = r.id] ELSE r : r \in rows}
    ELSE rows \cup {row}

\* UPDATE problems SET title = %s, ..., vj_link = %s WHERE id = %s
update_problem(rows, id, row) ==
    {IF r.id = id THEN [row EXCEPT !.id = r.id] ELSE r : r \in rows}

\* DELETE FROM problems WHERE id = %s
delete_problem(rows, id) == {r \in rows : r.id # id}

\* the samples of the problem left in place
delete_samples_none(rows, id) == rows

\* DELETE FROM samples WHERE problem_id = %s
delete_samples(rows, id) == SelectSeq(rows, LAMBDA s : s.problem_id # id)

\* sample_args, and executemany INSERT INTO samples (problem_id, input,
\* output): one row per sample of the request, in the order of the request
insert_samples(rows, id, sample_list) ==
    rows \o [k \in 1..Len(sample_list) |->
                [problem_id |-> id, input |-> sample_list[k].input,
                 output |-> sample_list[k].output]]

\* json_agg(json_build_object('input', s.input, 'output', s.output)
\* ORDER BY s.id) over the samples joined to problem id; the empty array
\* when the LEFT JOIN found none
samples_json(rows, id) ==
    LET joined == SelectSeq(rows, LAMBDA s : s.problem_id = id)
    IN  [k \in 1..Len(joined) |->
            [input |-> joined[k].input, output |-> joined[k].output]]

\* dict(result) of get_problem, samples in place of samples_json and
\* time_limit, memory_limit and vj_link under their camelCase names
problem_dict(p, sample_rows) ==
    [id |-> p.id, title |-> p.title, origin |-> p.origin,
     statement |-> p.statement, input |-> p.input, output |-> p.output,
     constraints |-> p.constraints, note |-> p.note,
     samples |-> samples_json(sample_rows, p.id),
     timeLimit |-> p.time_limit, memoryLimit |-> p.memory_limit,
     vjLink |-> p.vj_link]

\* one stored problem with one sample
SeedProblems ==
    {[id |-> "P1", title |-> "Sum", origin |-> "local", time_limit |-> "1s",
      memory_limit |-> "256MB", statement |-> "s", input |-> "i",
      output |-> "o", constraints |-> "c", note |-> "n", vj_link |-> "v"]}

SeedSamples == <<[problem_id |-> "P1", input |-> "1 2", output |-> "3"]>>

\* No contest configured; one problem stored, its list already served once
\* and cached.
Init ==
    /\ now = 0
    /\ contest_state = {}
    /\ problems = SeedProblems
    /\ samples = SeedSamples
    /\ cache = [k \in {"all_problems"} |-> list_problems(SeedProblems)]
    /\ cache_timestamp = [k \in {"all_problems"} |-> 0]
    /\ request = NoRequest
    /\ params = NoParams
    /\ response = NoResponse
    /\ body = NoBody
    /\ before = Stores
    /\ observed = NULL
    /\ inflight = [p \in Procs |-> NoTx]
    /\ committed = <<>>
    /\ checked_out = 0

ContestRead ==
    \E db \in DbOutcomes :
        \/ Serve(get_contest_status(db))
        \/ Serve(get_last_update(db))

\* A token and what the datastore does: the datastore's answer matters only
\* to a request that reaches it.
AdminInputs ==
    {in \in Tokens \X DbOutcomes : check_admin_token(in[1]) \/ in[2] = "ok"}

\* the admin requests for the contest, with these tokens and datastore
\* outcomes
ContestAdminWith(inputs) ==
    \E in \in inputs :
        \/ \E c \in Minutes, d \in Minutes :
               Serve(admin_schedule_contest(in[1], in[2], c, d))
        \/ \E d \in Minutes : Serve(admin_start_contest(in[1], in[2], d))
        \/ \E m \in Minutes : Serve(admin_add_time(in[1], in[2], m))
        \/ \E m \in Minutes :
               Serve(admin_add_precountdown_time(in[1], in[2], m))
        \/ Serve(admin_stop_contest(in[1], in[2]))
        \/ \E v \in BOOLEAN :
               Serve(admin_toggle_visibility(in[1], in[2], v))
        \/ Serve(admin_reset_contest(in[1], in[2]))

ContestAdmin == ContestAdminWith(AdminInputs)

Next == Tick \/ Return \/ ContestRead \/ ContestAdmin

Spec == Init /\ [][Next]_vars

(***************************************************************************)
(* The cache.                                                              *)
(***************************************************************************)
CACHE_TTL == 3600        \* seconds an entry is served for

CacheTtlTicks == CACHE_TTL * TicksPerSecond

\* cache = {}, and what cache.clear() leaves
EmptyDict == [k \in {} |-> NoBody]

\* f'problem_{problem_id}'
cache_key(problem_id) ==
    CASE problem_id = "P1" -> "problem_P1"
      [] problem_id = "P2" -> "problem_P2"

\* the entry served up to and including the second its age reaches the TTL
cache_fresh_inclusive(key) ==
    /\ key \in DOMAIN cache
    /\ key \in DOMAIN cache_timestamp
    /\ now - cache_timestamp[key] <= CacheTtlTicks

\* key in cache and (time.time() - cache_timestamp.get(key, 0)) < 3600; the
\* default 0 is the epoch, decades before any time.time(), so a key with no
\* timestamp is never fresh
cache_fresh(key) ==
    /\ key \in DOMAIN cache
    /\ key \in DOMAIN cache_timestamp
    /\ now - cache_timestamp[key] < CacheTtlTicks

\* dict[key] = value
put(dict, key, value) ==
    [k \in DOMAIN dict \cup {key} |-> IF k = key THEN value ELSE dict[k]]

\* only the problem list invalidated, the cached problems kept
clear_list_only(dict) ==
    [k \in DOMAIN dict \ {"all_problems"} |-> dict[k]]

\* dict.clear()
clear(dict) == EmptyDict

(***************************************************************************)
(* Transactions on problems and samples.  A transaction is the list of its *)
(* statements; db is the two tables as the transaction sees them.          *)
(***************************************************************************)
Db == [problems |-> problems, samples |-> samples]

\* the samples written before the problem row
UpsertStatements_samples_first ==
    <<"delete_samples", "insert_samples", "upsert_problem">>

\* admin_add_problem
UpsertStatements == <<"upsert_problem", "delete_samples", "insert_samples">>

\* admin_update_problem
UpdateStatements == <<"update_problem", "delete_samples", "insert_samples">>

\* admin_delete_problem
\* the DELETEs the other way round
DeleteStatements_problem_first == <<"delete_problem", "delete_samples">>

DeleteStatements == <<"delete_samples", "delete_problem">>

\* if data.get('samples', []): no INSERT is issued for an empty list
skipped(stmt, data) == stmt = "insert_samples" /\ data.samples = <<>>

\* the foreign key of samples.problem_id: a sample of no problem cannot be
\* inserted, a problem that has samples cannot be deleted
violates(stmt, db, id) ==
    \/ /\ stmt = "insert_samples"
       /\ ~\E r \in db.problems : r.id = id
    \/ /\ stmt = "delete_problem"
       /\ \E k \in 1..Len(db.samples) : db.samples[k].problem_id = id

\* cursor.execute / cursor.executemany of one statement
execute(stmt, db, id, data) ==
    CASE stmt = "upsert_problem" ->
             [db EXCEPT !.problems = upsert_problem(@, values_row(id, data))]
      [] stmt = "update_problem" ->
             [db EXCEPT !.problems =
                            update_problem(@, id, values_row(id, data))]
      [] stmt = "delete_problem" ->
             [db EXCEPT !.problems = delete_problem(@, id)]
      [] stmt = "delete_samples" ->
             [db EXCEPT !.samples = delete_samples(@, id)]
      [] stmt = "insert_samples" ->
             [db EXCEPT !.samples = insert_samples(@, id, data.samples)]

\* The try block from statement k on: the tables as the last statement that
\* ran left them, and whether an exception was raised.  fail_at numbers the
\* statement that raises for a reason of its own (a lost connection, a
\* KeyError in its arguments); Len(stmts) + 1 is conn.commit().
RECURSIVE run(_, _, _, _, _, _)
run(stmts, k, db, id, data, fail_at) ==
    IF k > Len(stmts) THEN [db |-> db, failed |-> fail_at = k]
    ELSE IF skipped(stmts[k], data)
    THEN run(stmts, k + 1, db, id, data, fail_at)
    ELSE IF fail_at = k \/ violates(stmts[k], db, id)
    THEN [db |-> db, failed |-> TRUE]
    ELSE run(stmts, k + 1, execute(stmts[k], db, id, data), id, data, fail_at)

\* no rollback: what the statements wrote before the exception stays
rollback_nothing(db, tx) == tx.db

\* conn.rollback(): the tables as they were committed
rollback(db, tx) == db

\* try: the statements, conn.commit(), the cache cleared, 200;
\* except: conn.rollback(), 500
transact(stmts, id, data, fail_at) ==
    LET tx == run(stmts, 1, Db, id, data, fail_at)
        end == IF tx.failed THEN rollback(Db, tx) ELSE tx.db
    IN  /\ problems' = end.problems
        /\ samples' = end.samples
        /\ IF tx.failed
           THEN /\ UNCHANGED <<cache, cache_timestamp>>
                /\ response' = Reply(500, "error")
           ELSE /\ cache' = clear(cache)
                /\ cache_timestamp' = clear(cache_timestamp)
                /\ response' = Reply(200, "success")

\* a problem endpoint that answers an error without touching anything
Deny(code) ==
    /\ response' = Reply(code, "error")
    /\ body' = NoBody
    /\ UNCHANGED catalog

(***************************************************************************)
(* GET /api/problems, GET /api/problems/<problem_id>                       *)
(***************************************************************************)
get_all_problems(db) ==
    /\ request' = Request("get_all_problems", NoToken, db, 0, 0, FALSE)
    /\ params' = NoParams
    /\ UNCHANGED <<contest_state, problems, samples>>
    /\ IF cache_fresh("all_problems")
       THEN /\ response' = Reply(200, "none")
            /\ body' = cache["all_problems"]
            /\ UNCHANGED <<cache, cache_timestamp>>
       ELSE IF db # "ok"
       THEN /\ response' = Reply(500, "error")
            /\ body' = NoBody
            /\ UNCHANGED <<cache, cache_timestamp>>
       ELSE LET rows == list_problems(problems)
            IN  /\ cache' = put(cache, "all_problems", rows)
                /\ cache_timestamp' = put(cache_timestamp, "all_problems", now)
                /\ response' = Reply(200, "none")
                /\ body' = rows

get_problem(db, problem_id) ==
    /\ request' = Request("get_problem", NoToken, db, 0, 0, FALSE)
    /\ params' = Params(problem_id, NoData, 0)
    /\ UNCHANGED <<contest_state, problems, samples>>
    /\ IF cache_fresh(cache_key(problem_id))
       THEN /\ response' = Reply(200, "none")
            /\ body' = cache[cache_key(problem_id)]
            /\ UNCHANGED <<cache, cache_timestamp>>
       ELSE IF db # "ok"
       THEN /\ response' = Reply(500, "error")
            /\ body' = NoBody
            /\ UNCHANGED <<cache, cache_timestamp>>
       ELSE IF ~\E p \in problems : p.id = problem_id
       THEN /\ response' = Reply(404, "error")
            /\ body' = NoBody
            /\ UNCHANGED <<cache, cache_timestamp>>
       ELSE LET result == CHOOSE p \in problems : p.id = problem_id
                dict == problem_dict(result, samples)
            IN  /\ cache' = put(cache, cache_key(problem_id), dict)
                /\ cache_timestamp' =
                       put(cache_timestamp, cache_key(problem_id), now)
                /\ response' = Reply(200, "none")
                /\ body' = dict

(***************************************************************************)
(* POST /api/admin/problems, PUT and DELETE /api/admin/problems/<id>       *)
(***************************************************************************)
admin_add_problem(token, db, data, fail_at) ==
    /\ request' = Request("admin_add_problem", token, db, 0, 0, FALSE)
    /\ params' = Params(data.id, data, fail_at)
    /\ body' = NoBody
    /\ UNCHANGED contest_state
    /\ IF ~check_admin_token(token) THEN Deny(401)
       ELSE IF db = "no_connection" THEN Deny(500)
       ELSE transact(UpsertStatements, data.id, data, fail_at)

admin_update_problem(token, db, problem_id, data, fail_at) ==
    /\ request' = Request("admin_update_problem", token, db, 0, 0, FALSE)
    /\ params' = Params(problem_id, data, fail_at)
    /\ body' = NoBody
    /\ UNCHANGED contest_state
    /\ IF ~check_admin_token(token) THEN Deny(401)
       ELSE IF db = "no_connection" THEN Deny(500)
       ELSE transact(UpdateStatements, problem_id, data, fail_at)

admin_delete_problem(token, db, problem_id, fail_at) ==
    /\ request' = Request("admin_delete_problem", token, db, 0, 0, FALSE)
    /\ params' = Params(problem_id, NoData, fail_at)
    /\ body' = NoBody
    /\ UNCHANGED contest_state
    /\ IF ~check_admin_token(token) THEN Deny(401)
       ELSE IF db = "no_connection" THEN Deny(500)
       ELSE transact(DeleteStatements, problem_id, NoData, fail_at)

(***************************************************************************)
(* The problem endpoints served: their inputs, and the specifications that *)
(* exercise them.                                                          *)
(***************************************************************************)
SampleX == [input |-> "1 2", output |-> "3"]
SampleY == [input |-> "5 5", output |-> "10"]

\* data.get('samples', []) of the requests made
SampleLists == {<<>>, <<SampleY>>, <<SampleY, SampleX>>, <<SampleY, SampleY>>}

\* request.json of an admin request for problem id: one of two settings of
\* the fields, the first that of the seeded problem, and a list of samples
Data(id, version, sample_list) ==
    IF version = 1
    THEN [id |-> id, title |-> "Sum", origin |-> "local", timeLimit |-> "1s",
          memoryLimit |-> "256MB", statement |-> "s", input |-> "i",
          output |-> "o", constraints |-> "c", note |-> "n", vjLink |-> "v",
          samples |-> sample_list]
    ELSE [id |-> id, title |-> "Max", origin |-> "contest",
          timeLimit |-> "2s", memoryLimit |-> "512MB", statement |-> "s2",
          input |-> "i2", output |-> "o2", constraints |-> "c2",
          note |-> "n2", vjLink |-> "v2", samples |-> sample_list]

\* every body the model sends
AllData ==
    {Data(id, v, l) : id \in ProblemIds, v \in {1, 2}, l \in SampleLists}

\* the bodies sent where it is the cache that is under study
FewData == {Data(id, 2, <<SampleY>>) : id \in ProblemIds}

\* What the datastore does to a transaction of these statements: serves it,
\* gives no connection, or raises at one statement or at the commit.
FailPoints(stmts) ==
    {<<"ok", 0>>, <<"no_connection", 0>>}
        \cup {<<"query_error", k>> : k \in 1..(Len(stmts) + 1)}

\* one request to a problem endpoint served, start to finish
ServeProblems(Handler) ==
    /\ Idle
    /\ Handler
    /\ before' = Stores
    /\ UNCHANGED <<now, observed, race>>

\* the times the catalog is looked at: the first ticks, and the ticks around
\* one TTL later
Instants ==
    (0..MaxSkew) \cup ((CacheTtlTicks - 1)..(CacheTtlTicks + MaxSkew))

\* Time passes between requests: a tick, or all but a tick of the TTL.
Elapse ==
    /\ Idle
    /\ \E d \in {1, CacheTtlTicks - 1} :
           /\ now + d \in Instants
           /\ now' = now + d
    /\ UNCHANGED <<contest_state, catalog, request, params, response, body,
                   before, observed, race>>

ProblemRead ==
    \E db \in DbOutcomes :
        \/ ServeProblems(get_all_problems(db))
        \/ \E id \in ProblemIds : ServeProblems(get_problem(db, id))

\* the admin requests for problems, with these tokens and these bodies
ProblemAdmin(tokens, datas) ==
    \E token \in tokens :
        \/ \E data \in datas, f \in FailPoints(UpsertStatements) :
               ServeProblems(admin_add_problem(token, f[1], data, f[2]))
        \/ \E id \in ProblemIds, data \in datas,
              f \in FailPoints(UpdateStatements) :
               ServeProblems(
                   admin_update_problem(token, f[1], id, data, f[2]))
        \/ \E id \in ProblemIds, f \in FailPoints(DeleteStatements) :
               ServeProblems(admin_delete_problem(token, f[1], id, f[2]))

\* Reads and writes of the catalog over more than an hour.
CatalogNext ==
    Elapse \/ Return \/ ProblemRead \/ ProblemAdmin(Tokens, FewData)

CatalogSpec == Init /\ [][CatalogNext]_vars

\* The admin, authorized, writing every body it can.
MutationNext == Return \/ ProblemAdmin({ADMIN_PASSWORD}, AllData)

MutationSpec == Init /\ [][MutationNext]_vars

\* Every admin endpoint, called with and without the admin token, whatever
\* the datastore would do.
AdminNext ==
    \/ Return
    \/ ContestAdminWith(Tokens \X DbOutcomes)
    \/ ProblemAdmin(Tokens, FewData)

AdminSpec == Init /\ [][AdminNext]_vars

(***************************************************************************)
(* Two admin_add_problem requests for one problem served side by side,     *)
(* each in its own transaction on its own connection.  The datastore runs  *)
(* them READ COMMITTED: a statement sees what is committed and what its    *)
(* own transaction wrote; a row one transaction has written or deleted is  *)
(* locked until that transaction ends, and a statement of the other that   *)
(* needs the row waits.  The sample rows of two transactions that commit   *)
(* are kept in the order of the commits.                                   *)
(***************************************************************************)
RaceId == "P1"

\* the bodies of the two requests
RaceData ==
    {Data(RaceId, v, l) :
        v \in {1, 2}, l \in {<<>>, <<SampleY>>, <<SampleY, SampleX>>}}

CommitPc == Len(UpsertStatements) + 1

DonePc == CommitPc + 1

\* the transaction of q is open
active(q) == inflight[q].pc \in 1..CommitPc

\* the positions in rows of the samples of problem id
positions(rows, id) == {k \in 1..Len(rows) : rows[k].problem_id = id}

\* rows without those at the positions ks
remove_at(rows, ks) ==
    LET keep == SelectSeq([k \in 1..Len(rows) |-> k], LAMBDA k : k \notin ks)
    IN  [i \in 1..Len(keep) |-> rows[keep[i]]]

\* stmt of p, for problem id, needs a lock that an open transaction holds:
\* the problem row another has written; a sample row another has deleted;
\* for the foreign key of a sample, the problem row another has inserted
blocked(p, stmt, id) ==
    \E q \in Procs \ {p} :
        /\ active(q)
        /\ inflight[q].data.id = id
        /\ \/ stmt = "upsert_problem" /\ inflight[q].wrote
           \/ /\ stmt = "delete_samples"
              /\ inflight[q].marked \cap positions(samples, id) # {}
           \/ /\ stmt = "insert_samples"
              /\ ~inflight[p].wrote
              /\ id \notin {r.id : r \in problems}
              /\ inflight[q].wrote

\* the foreign key of samples.problem_id, for a transaction under way
violates_in(p, stmt, id) ==
    /\ stmt = "insert_samples"
    /\ ~inflight[p].wrote
    /\ id \notin {r.id : r \in problems}

\* what executing stmt adds to the uncommitted writes of tx
executed(tx, stmt) ==
    CASE stmt = "upsert_problem" -> [tx EXCEPT !.wrote = TRUE]
      [] stmt = "delete_samples" ->
             [tx EXCEPT !.marked = positions(samples, tx.data.id),
                        !.inserted = <<>>]
      [] stmt = "insert_samples" ->
             [tx EXCEPT !.inserted =
                            insert_samples(@, tx.data.id, tx.data.samples)]

\* conn.rollback(), 500: the writes are dropped and the locks released
rolled_back(tx) == Tx(DonePc, tx.data, FALSE, {}, <<>>, tx.waited, 500)

serving == <<now, contest_state, request, params, response, body, before,
             observed, checked_out>>

\* the request of p arrives, authorized, with a body that differs from the
\* other's
RaceArrive(p, data) ==
    /\ inflight[p].pc = 0
    /\ \A q \in Procs \ {p} : inflight[q].data # data
    /\ inflight' = [inflight EXCEPT
                        ![p] = Tx(1, data, FALSE, {}, <<>>, FALSE, 0)]
    /\ UNCHANGED <<serving, catalog, committed>>

\* p issues its next statement and finds the lock taken
RaceWait(p) ==
    LET tx == inflight[p]
    IN  /\ tx.pc \in 1..Len(UpsertStatements)
        /\ ~tx.waited
        /\ ~skipped(UpsertStatements[tx.pc], tx.data)
        /\ blocked(p, UpsertStatements[tx.pc], tx.data.id)
        /\ inflight' = [inflight EXCEPT ![p].waited = TRUE]
        /\ UNCHANGED <<serving, catalog, committed>>

\* the next statement of p executes, or is skipped, or fails on the
\* foreign key
RaceStatement(p) ==
    LET tx == inflight[p]
        stmt == UpsertStatements[tx.pc]
    IN  /\ tx.pc \in 1..Len(UpsertStatements)
        /\ skipped(stmt, tx.data) \/ ~blocked(p, stmt, tx.data.id)
        /\ inflight' =
               [inflight EXCEPT ![p] =
                   IF skipped(stmt, tx.data) THEN [tx EXCEPT !.pc = @ + 1]
                   ELSE IF violates_in(p, stmt, tx.data.id)
                   THEN rolled_back(tx)
                   ELSE [executed(tx, stmt) EXCEPT !.pc = @ + 1]]
        /\ UNCHANGED <<serving, catalog, committed>>

\* the next statement of p, or its commit, raises
RaceRaise(p) ==
    /\ active(p)
    /\ inflight' = [inflight EXCEPT ![p] = rolled_back(inflight[p])]
    /\ UNCHANGED <<serving, catalog, committed>>

\* conn.commit(), the cache cleared, 200
RaceCommit(p) ==
    LET tx == inflight[p]
    IN  /\ tx.pc = CommitPc
        /\ problems' =
               IF tx.wrote
               THEN upsert_problem(problems, values_row(tx.data.id, tx.data))
               ELSE problems
        /\ samples' = remove_at(samples, tx.marked) \o tx.inserted
        /\ cache' = clear(cache)
        /\ cache_timestamp' = clear(cache_timestamp)
        /\ committed' = Append(committed, p)
        /\ inflight' = [inflight EXCEPT
                            ![p] = Tx(DonePc, tx.data, FALSE, {}, <<>>,
                                      tx.waited, 200)]
        /\ UNCHANGED serving

\* The problem stored with a sample, stored without samples, or not stored.
RaceInit ==
    /\ now = 0
    /\ contest_state = {}
    /\ \/ problems = SeedProblems /\ samples = SeedSamples
       \/ problems = SeedProblems /\ samples = <<>>
       \/ problems = {} /\ samples = <<>>
    /\ cache = EmptyDict
    /\ cache_timestamp = EmptyDict
    /\ request = NoRequest
    /\ params = NoParams
    /\ response = NoResponse
    /\ body = NoBody
    /\ before = Stores
    /\ observed = NULL
    /\ inflight = [p \in Procs |-> NoTx]
    /\ committed = <<>>
    /\ checked_out = 0

RaceNext ==
    \E p \in Procs :
        \/ \E data \in RaceData : RaceArrive(p, data)
        \/ RaceWait(p)
        \/ RaceStatement(p)
        \/ RaceRaise(p)
        \/ RaceCommit(p)

RaceSpec == RaceInit /\ [][RaceNext]_vars

(***************************************************************************)
(* GET /api/contest/last-update served side by side with the admin         *)
(* requests for the contest.  The poll reads the row, decides, and writes  *)
(* in a later statement; an admin request, one statement or a SELECT and   *)
(* an UPDATE of its own, is served whole in between.                       *)
(***************************************************************************)
\* A poll in flight: pc is 0 before it arrives, 1 when it has read the row
\* and decided, and the last pc when it has responded with code.
\* current_status is the status of the row its SELECT found, new_status
\* the status it decided on; of the row it read it uses nothing else
\* afterwards but the timestamp it answers with, which is left out.
Poll(pc, current_status, new_status, code) ==
    [pc |-> pc, current_status |-> current_status,
     new_status |-> new_status, code |-> code]

\* the pc of a poll that has selected
SelectedPc == 1

\* the pc of a poll that has responded
PolledPc == 2

\* cursor.execute(SELECT ...), result = cursor.fetchone(), now =
\* datetime.now() and the if / elif that decides on new_status
PollSelect(p) ==
    /\ inflight[p].pc = 0
    /\ inflight' =
           [inflight EXCEPT
                ![p] = IF contest_row = {}
                       THEN Poll(PolledPc, "no_contest", "no_contest", 200)
                       ELSE Poll(SelectedPc, the_contest.status,
                                 auto_transition(the_contest, now), 0)]
    /\ UNCHANGED <<serving, catalog, committed>>

\* if needs_update and new_status != current_status: the UPDATE of whatever
\* row is stored by now, and the commit; then the response
PollUpdate(p) ==
    LET tx == inflight[p]
    IN  /\ tx.pc = SelectedPc
        /\ IF tx.new_status # tx.current_status
           THEN contest_state' = update_contest(
                    [r \in contest_state |->
                        [r EXCEPT !.status = tx.new_status,
                                  !.updated_at = now]])
           ELSE UNCHANGED contest_state
        /\ inflight' = [inflight EXCEPT
                            ![p] = Poll(PolledPc, tx.current_status,
                                        tx.new_status, 200)]
        /\ UNCHANGED <<now, request, params, response, body, before,
                       observed, catalog, committed, checked_out>>

\* the client of the poll receives the response
PollReturn(p) ==
    /\ inflight[p].pc = PolledPc
    /\ inflight' = [inflight EXCEPT ![p] = NoTx]
    /\ UNCHANGED <<serving, catalog, committed>>

\* the client that polls
Pollers == {1}

\* the admin requests that write the times or the status of the contest,
\* authorized and served
PollAdmin ==
    \/ \E c \in Minutes, d \in Minutes :
           Serve(admin_schedule_contest(ADMIN_PASSWORD, "ok", c, d))
    \/ \E d \in Minutes : Serve(admin_start_contest(ADMIN_PASSWORD, "ok", d))
    \/ \E m \in Minutes : Serve(admin_add_time(ADMIN_PASSWORD, "ok", m))
    \/ \E m \in Minutes :
           Serve(admin_add_precountdown_time(ADMIN_PASSWORD, "ok", m))
    \/ Serve(admin_stop_contest(ADMIN_PASSWORD, "ok"))
    \/ Serve(admin_reset_contest(ADMIN_PASSWORD, "ok"))

\* The admin at work while the page polls.
PollNext ==
    \/ Tick
    \/ Return
    \/ PollAdmin
    \/ \E p \in Pollers :
           \/ PollSelect(p)
           \/ PollUpdate(p)
           \/ PollReturn(p)

PollSpec == Init /\ [][PollNext]_vars

(***************************************************************************)
(* GET /api/problems and GET /api/problems/<problem_id> served side by     *)
(* side with the admin requests for problems.  A read that misses the      *)
(* cache queries the datastore and stores what it got in a later step; an  *)
(* admin request is served whole in between.                               *)
(***************************************************************************)
\* A read in flight: pc is 0 before it arrives, 1 when it has missed the
\* cache and fetched value from the datastore, and the last pc when it has
\* responded with code.  key is its cache key.
Reading(pc, key, value, code) ==
    [pc |-> pc, key |-> key, value |-> value, code |-> code]

\* the pc of a read that has queried
QueriedPc == 1

\* the pc of a read that has responded
AnsweredPc == 2

\* get_all_problems up to problems = list(cursor.fetchall()), or to the
\* return of the cached list
ReadAll(p) ==
    /\ inflight[p].pc = 0
    /\ inflight' =
           [inflight EXCEPT
                ![p] = IF cache_fresh("all_problems")
                       THEN Reading(AnsweredPc, "all_problems",
                                    cache["all_problems"], 200)
                       ELSE Reading(QueriedPc, "all_problems",
                                    list_problems(problems), 0)]
    /\ UNCHANGED <<serving, catalog, committed>>

\* get_problem up to problem_dict = dict(result) and its samples, or to the
\* return of the cached problem, or to the 404
ReadOne(p, problem_id) ==
    /\ inflight[p].pc = 0
    /\ inflight' =
           [inflight EXCEPT
                ![p] = IF cache_fresh(cache_key(problem_id))
                       THEN Reading(AnsweredPc, cache_key(problem_id),
                                    cache[cache_key(problem_id)], 200)
                       ELSE IF ~\E r \in problems : r.id = problem_id
                       THEN Reading(AnsweredPc, cache_key(problem_id),
                                    NoBody, 404)
                       ELSE Reading(QueriedPc, cache_key(problem_id),
                                    problem_dict(
                                        CHOOSE r \in problems :
                                            r.id = problem_id,
                                        samples),
                                    0)]
    /\ UNCHANGED <<serving, catalog, committed>>

\* cache[key] = value, cache_timestamp[key] = time.time(), and the response
ReadStore(p) ==
    LET tx == inflight[p]
    IN  /\ tx.pc = QueriedPc
        /\ cache' = put(cache, tx.key, tx.value)
        /\ cache_timestamp' = put(cache_timestamp, tx.key, now)
        /\ inflight' = [inflight EXCEPT
                            ![p] = Reading(AnsweredPc, tx.key, tx.value,
                                           200)]
        /\ UNCHANGED <<serving, problems, samples, committed>>

\* the client of the read receives the response
ReadReturn(p) ==
    /\ inflight[p].pc = AnsweredPc
    /\ inflight' = [inflight EXCEPT ![p] = NoTx]
    /\ UNCHANGED <<serving, catalog, committed>>

\* the client that reads
Readers == {1}

\* the admin requests for problems, authorized and served without a failure
ReadRaceAdmin ==
    \/ \E data \in FewData :
           ServeProblems(admin_add_problem(ADMIN_PASSWORD, "ok", data, 0))
    \/ \E id \in ProblemIds, data \in FewData :
           ServeProblems(
               admin_update_problem(ADMIN_PASSWORD, "ok", id, data, 0))
    \/ \E id \in ProblemIds :
           ServeProblems(admin_delete_problem(ADMIN_PASSWORD, "ok", id, 0))

\* The admin writing problems while the page reads them, over more than an
\* hour.
ReadRaceNext ==
    \/ Elapse
    \/ Return
    \/ ReadRaceAdmin
    \/ \E p \in Readers :
           \/ ReadAll(p)
           \/ \E id \in ProblemIds : ReadOne(p, id)
           \/ ReadStore(p)
           \/ ReadReturn(p)

ReadRaceSpec == Init /\ [][ReadRaceNext]_vars

(***************************************************************************)
(* The contest left to the clock and the polling page: the admin schedules *)
(* or starts it, time does not stop before the latest end_time stored, and *)
(* the poll keeps being served.                                            *)
(***************************************************************************)
\* time passes between requests, up to the latest time a row can hold
LiveTick ==
    /\ Idle
    /\ now < MaxTime
    /\ now' = now + 1
    /\ UNCHANGED <<contest_state, catalog, request, params, response, body,
                   before, observed, race>>

\* the page polls and the datastore serves it
LivePoll == Serve(get_last_update("ok"))

\* schedule(c, d) and start(d), authorized and served
LiveAdmin ==
    \/ \E c \in Minutes, d \in Minutes :
           Serve(admin_schedule_contest(ADMIN_PASSWORD, "ok", c, d))
    \/ \E d \in Minutes : Serve(admin_start_contest(ADMIN_PASSWORD, "ok", d))

LiveNext == LiveTick \/ Return \/ LivePoll \/ LiveAdmin

\* Time keeps advancing and the poll keeps being served, however the two
\* alternate: each happens again and again as long as it can again and
\* again; every response is received.
LiveSpec ==
    /\ Init
    /\ [][LiveNext]_vars
    /\ SF_vars(LiveTick)
    /\ SF_vars(LivePoll)
    /\ WF_vars(Return)

(***************************************************************************)
(* connection_pool, created at import.  Of a request only the path it      *)
(* takes through its handler is kept here, and of the datastore only the   *)
(* connections handed out; what the handlers do to the tables and to the   *)
(* cache is in the specifications above.                                   *)
(***************************************************************************)
POOL_MAXCONN == 5        \* SimpleConnectionPool(1, 5, connection_url)

\* the handlers that call get_db_connection()
PooledOps ==
    {"get_all_problems", "get_problem", "health_check", "test_connection",
     "admin_add_problem", "admin_update_problem", "admin_delete_problem",
     "get_contest_status", "get_last_update"} \cup AdminOps

\* the handlers that return from inside their try before the last
\* statement: 404 for no such problem, 400 for a contest in no state to be
\* extended, 200 for no contest
EarlyReturnOps ==
    {"get_problem", "get_contest_status", "get_last_update",
     "admin_add_time", "admin_add_precountdown_time"}

\* the handlers whose finally is cursor.close() and then
\* release_connection(conn), cursor being bound by the first line of the try
CursorClosedInFinally ==
    {"admin_add_problem", "admin_update_problem", "admin_delete_problem"}

\* The ways through a handler: get_db_connection() gives None
\* (no_connection); conn.cursor() raises, the connection having been closed
\* under the pool (cursor_error); a statement raises (query_error); the
\* handler returns early from its try (early_return); it runs to its last
\* return (ok).
paths(op) ==
    IF op = "health_check" THEN {"no_connection", "ok"}
    ELSE {"no_connection", "cursor_error", "query_error", "ok"}
             \cup (IF op \in EarlyReturnOps THEN {"early_return"} ELSE {})

\* whether op, having got a connection, calls release_connection(conn)
\* before it has responded: always, from a finally or straight after
\* get_db_connection(), but for test_connection, which does so on the last
\* line of its if alone, and for the handlers that close the cursor first
\* in their finally, where an unbound cursor raises before the release
releases(op, path) ==
    IF op = "test_connection" THEN path = "ok"
    ELSE IF op \in CursorClosedInFinally THEN path # "cursor_error"
    ELSE TRUE

\* the status code of the response
code_of(op, path) ==
    CASE path = "ok" -> 200
      [] path = "early_return" ->
             IF op = "get_problem" THEN 404
             ELSE IF op \in {"admin_add_time", "admin_add_precountdown_time"}
             THEN 400
             ELSE 200
      [] OTHER -> 500

\* connection_pool.getconn() in get_db_connection(): raises, and None is
\* returned, when maxconn connections are out
pool_exhausted == checked_out >= POOL_MAXCONN

\* One request served, start to finish, along path: a connection taken
\* unless none is to be had, and given back where the handler does so.
PoolServe(op, path) ==
    /\ Idle
    /\ pool_exhausted => path = "no_connection"
    /\ request' = Request(op, IF op \in AdminOps \cup CursorClosedInFinally
                              THEN ADMIN_PASSWORD ELSE NoToken,
                          path, 0, 0, FALSE)
    /\ response' = Reply(code_of(op, path),
                         IF code_of(op, path) = 200 THEN "success"
                         ELSE "error")
    /\ checked_out' =
           IF path = "no_connection" \/ releases(op, path)
           THEN checked_out
           ELSE checked_out + 1
    /\ before' = Stores
    /\ UNCHANGED <<now, contest_state, catalog, params, body, observed,
                   inflight, committed>>

PoolNext ==
    \/ Return
    \/ \E op \in PooledOps : \E path \in paths(op) : PoolServe(op, path)

PoolSpec == Init /\ [][PoolNext]_vars

(***************************************************************************)
(* Properties.  In the state a handler leaves, request and response are    *)
(* its request and response, now is the time it ran at, before holds the   *)
(* stores it found and the variables hold the stores it left.              *)
(***************************************************************************)
\* the contest row the last request found
found == CHOOSE r \in before.contest_state : r.id = 1

\* the last request is op and the datastore served it
Served(op) == request.op = op /\ request.db = "ok"

\* the last request is the admin request op, authorized and served
Admitted(op) == Served(op) /\ check_admin_token(request.token)

start_passed(r) == r.start_time # NULL /\ r.start_time <= now
end_passed(r) == r.end_time # NULL /\ r.end_time <= now

\* C1: a poll that finds the contest pending with start_time <= now stores
\* running, one that finds it running with end_time <= now stores ended; in
\* both cases updated_at becomes the time of the poll and the last_update
\* returned is that updated_at in whole seconds.  A poll at the very time a
\* contest was scheduled with no countdown is the case start_time = now.
C1_AutoTransitionOnPoll ==
    (Served("get_last_update") /\ before.contest_state # {}) =>
        /\ contest_row # {}
        /\ (found.status = "pending" /\ start_passed(found)) =>
               /\ the_contest.status = "running"
               /\ the_contest.updated_at = now
               /\ response.code = 200
               /\ response.last_update = int_seconds(the_contest.updated_at)
        /\ (found.status = "running" /\ end_passed(found)) =>
               /\ the_contest.status = "ended"
               /\ the_contest.updated_at = now
               /\ response.code = 200
               /\ response.last_update = int_seconds(the_contest.updated_at)

\* a poll at the tick a contest was scheduled at with countdown 0 and a
\* positive duration has left it running, half a second into a second
C1_Witness ==
    /\ Served("get_last_update")
    /\ before.contest_state # {}
    /\ found.status = "pending"
    /\ found.start_time = now
    /\ found.updated_at = now
    /\ found.end_time > now
    /\ now % TicksPerSecond # 0
    /\ the_contest.status = "running"
    /\ response.last_update = int_seconds(now)

\* C2: one poll applies at most one transition.  A poll that finds the
\* contest pending with both start_time and end_time passed leaves it
\* running, and whatever it finds it changes nothing but status and
\* updated_at; no poll takes a pending contest to ended.
C2_OneTransitionPerPoll ==
    (Served("get_last_update") /\ before.contest_state # {}) =>
        /\ contest_state =
               {[found EXCEPT !.status = the_contest.status,
                              !.updated_at = the_contest.updated_at]}
        /\ found.status = "pending" => the_contest.status # "ended"
        /\ (found.status = "pending" /\ start_passed(found)
                /\ end_passed(found)) =>
               contest_state = {[found EXCEPT !.status = "running",
                                              !.updated_at = now]}
        /\ catalog = <<before.problems, before.samples, before.cache,
                       before.cache_timestamp>>

\* a poll found the contest pending after both its times and left it running
C2_Witness ==
    /\ Served("get_last_update")
    /\ before.contest_state # {}
    /\ found.status = "pending"
    /\ start_passed(found)
    /\ end_passed(found)
    /\ found.start_time < found.end_time
    /\ the_contest.status = "running"

\* C3: the status read writes nothing: the contest row, the problems, the
\* samples and the cache are after the call what they were before it, and
\* no row is created when there was none.
C3_StatusReadWritesNothing ==
    request.op = "get_contest_status" => Stores = before

\* a status read of a running contest whose end_time has passed, with an
\* entry in the cache
C3_Witness ==
    /\ Served("get_contest_status")
    /\ before.contest_state # {}
    /\ found.status = "running"
    /\ end_passed(found)
    /\ DOMAIN before.cache # {}
    /\ response.code = 200

\* C4: the remaining time of a status read, in whole seconds: the time to
\* start_time when pending, the time to end_time when running, 0 once that
\* time has passed, when the contest has ended, when a pending contest has no
\* start_time and when there is no row; never negative.
C4_RemainingTime ==
    Served("get_contest_status") =>
        /\ response.code = 200
        /\ response.remaining_time >= 0
        /\ before.contest_state = {} => response.remaining_time = 0
        /\ before.contest_state # {} =>
            /\ response.status = found.status
            /\ found.status = "ended" => response.remaining_time = 0
            /\ (found.status = "pending" /\ found.start_time = NULL) =>
                   response.remaining_time = 0
            /\ (found.status = "pending" /\ found.start_time # NULL) =>
                   IF found.start_time <= now
                   THEN response.remaining_time = 0
                   ELSE response.remaining_time =
                            (found.start_time - now) \div TicksPerSecond
            /\ found.status = "running" =>
                   /\ found.end_time # NULL
                   /\ IF found.end_time <= now
                      THEN response.remaining_time = 0
                      ELSE response.remaining_time =
                               (found.end_time - now) \div TicksPerSecond

\* a status read of a running contest after its end_time: 0, not negative
C4_Witness ==
    /\ Served("get_contest_status")
    /\ before.contest_state # {}
    /\ found.status = "running"
    /\ found.end_time # NULL
    /\ found.end_time + TicksPerSecond <= now
    /\ response.remaining_time = 0

\* C5: the remaining time a status read reports is at most the remaining
\* time the previous status read reported for the running contest, when only
\* time, status reads, polls and refused requests came between the two.
C5_RemainingNonIncreasing ==
    (request.op = "get_contest_status" /\ response.code = 200
        /\ observed # NULL) =>
        response.remaining_time <= observed

\* a second status read, after a poll has ended the contest the first one
\* saw running with time left
C5_Witness ==
    /\ request.op = "get_contest_status"
    /\ response.code = 200
    /\ observed > 0
    /\ response.status = "ended"
    /\ response.remaining_time = 0

\* C6: after schedule(countdown, duration) succeeds, whatever row it found,
\* the row has status pending, start_time = now + countdown, end_time =
\* start_time + duration, total_duration = duration and visibility false.
C6_ScheduleSetsRow ==
    Admitted("admin_schedule_contest") =>
        /\ response.code = 200
        /\ contest_row # {}
        /\ the_contest.status = "pending"
        /\ the_contest.start_time = now + timedelta(request.a)
        /\ the_contest.end_time =
               the_contest.start_time + timedelta(request.b)
        /\ the_contest.total_duration_minutes = request.b
        /\ the_contest.is_visible = FALSE

\* C7: after start(duration) succeeds, whatever row it found, the row has
\* status running, start_time = now, end_time = now + duration,
\* total_duration = duration and visibility false.
C7_StartSetsRow ==
    Admitted("admin_start_contest") =>
        /\ response.code = 200
        /\ contest_row # {}
        /\ the_contest.status = "running"
        /\ the_contest.start_time = now
        /\ the_contest.end_time = now + timedelta(request.a)
        /\ the_contest.total_duration_minutes = request.a
        /\ the_contest.is_visible = FALSE

\* C8: add-time with no contest row, or with a row whose end_time is unset,
\* answers 400 and leaves the stores as they were: no row created, no field
\* written, updated_at included.
C8_AddTimeRefused ==
    (Admitted("admin_add_time")
        /\ (before.contest_state = {} \/ found.end_time = NULL)) =>
        /\ response.code = 400
        /\ Stores = before

\* add-time of a minute or more refused for a row that has no end_time
C8_Witness ==
    /\ Admitted("admin_add_time")
    /\ request.a >= 1
    /\ before.contest_state # {}
    /\ found.end_time = NULL
    /\ response.code = 400

\* C9: add-precountdown-time succeeds exactly when it finds a row that is
\* pending with a start_time; it then moves start_time by the minutes given
\* and leaves end_time, total_duration, status and visibility alone.  In
\* every other state it answers 400 and changes nothing.
C9_AddPrecountdownTime ==
    Admitted("admin_add_precountdown_time") =>
        IF before.contest_state # {} /\ found.status = "pending"
           /\ found.start_time # NULL
        THEN /\ response.code = 200
             /\ contest_state =
                    {[found EXCEPT !.start_time =
                                       found.start_time + timedelta(request.a),
                                   !.updated_at = the_contest.updated_at]}
             /\ catalog = <<before.problems, before.samples, before.cache,
                            before.cache_timestamp>>
        ELSE /\ response.code = 400
             /\ Stores = before

\* a minute added to the countdown of a pending contest: start_time moved,
\* end_time where it was
C9_Witness ==
    /\ Admitted("admin_add_precountdown_time")
    /\ response.code = 200
    /\ request.a >= 1
    /\ found.end_time # NULL
    /\ the_contest.start_time = found.start_time + timedelta(request.a)
    /\ the_contest.end_time = found.end_time

\* C10: stop succeeds from every contest state, creating the row when there
\* is none; afterwards status is ended and end_time is the time of the call.
\* Stopping a contest that has ended leaves it ended.
C10_StopEndsContest ==
    Admitted("admin_stop_contest") =>
        /\ response.code = 200
        /\ contest_row # {}
        /\ the_contest.status = "ended"
        /\ the_contest.end_time = now
        /\ before.contest_state # {} =>
               contest_state = {[found EXCEPT !.status = "ended",
                                              !.end_time = now,
                                              !.updated_at =
                                                  the_contest.updated_at]}

\* stop called again, later, on the contest it ended: still ended, end_time
\* now the time of the second call
C10_Witness ==
    /\ Admitted("admin_stop_contest")
    /\ before.contest_state # {}
    /\ found.status = "ended"
    /\ found.end_time < now
    /\ the_contest.status = "ended"
    /\ the_contest.end_time = now

\* the contest row was found ended by the last request
found_ended == before.contest_state # {} /\ found.status = "ended"

still_ended == contest_row # {} /\ the_contest.status = "ended"

\* C11 as stated: a contest found ended is left ended by every request but
\* an authorized reset.
C11_EndedUntilReset ==
    (found_ended /\ ~Admitted("admin_reset_contest")) => still_ended

\* C11: a contest found ended is left ended by every status read, poll,
\* add-time, add-precountdown-time, stop and visibility request, and by
\* every request that is refused; only an authorized reset, schedule or
\* start takes it out of ended.
C11_EndedUntilRestarted ==
    (/\ found_ended
     /\ ~Admitted("admin_reset_contest")
     /\ ~Admitted("admin_schedule_contest")
     /\ ~Admitted("admin_start_contest")) => still_ended

\* a poll of an ended contest whose end_time was moved ahead of the clock
\* by add-time: still ended
C11_Witness ==
    /\ Served("get_last_update")
    /\ found_ended
    /\ found.end_time > now
    /\ response.code = 200
    /\ still_ended

\* C12: with no contest row, the status read answers pending with remaining
\* time 0 and visibility false, the poll answers no_contest with last_update
\* 0, and neither creates a row.
C12_NoContestReported ==
    before.contest_state = {} =>
        /\ Served("get_contest_status") =>
               /\ response.code = 200
               /\ response.status = "pending"
               /\ response.remaining_time = 0
               /\ response.is_visible = FALSE
               /\ contest_state = {}
        /\ Served("get_last_update") =>
               /\ response.code = 200
               /\ response.status = "no_contest"
               /\ response.last_update = 0
               /\ contest_state = {}

\* a poll some time after start-up, no contest ever configured
C12_Witness ==
    /\ Served("get_last_update")
    /\ before.contest_state = {}
    /\ now > 0
    /\ response.status = "no_contest"
    /\ contest_state = {}

\* C20: add-time succeeds on every contest row whose end_time is set,
\* whether pending, running or ended and whether schedule, start or stop
\* wrote the row; end_time moves by the minutes given, total_duration_minutes
\* grows by them, and status, start_time and is_visible stay as they were.
C20_AddTimeExtends ==
    (/\ Admitted("admin_add_time")
     /\ before.contest_state # {}
     /\ found.end_time # NULL) =>
        /\ response.code = 200
        /\ contest_state =
               {[found EXCEPT !.end_time =
                                  found.end_time + timedelta(request.a),
                              !.total_duration_minutes =
                                  found.total_duration_minutes + request.a,
                              !.updated_at = now]}

\* a minute added to a row that stop created: ended, never started, its
\* total_duration_minutes the column default
C20_Witness ==
    /\ Admitted("admin_add_time")
    /\ before.contest_state # {}
    /\ found.status = "ended"
    /\ found.start_time = NULL
    /\ found.end_time # NULL
    /\ request.a >= 1
    /\ response.code = 200
    /\ the_contest.status = "ended"
    /\ the_contest.end_time = found.end_time + timedelta(request.a)
    /\ the_contest.total_duration_minutes = DEFAULT_TOTAL_DURATION + request.a

ProblemAdminOps ==
    {"admin_add_problem", "admin_update_problem", "admin_delete_problem"}

\* C13: an admin request for problems or for the contest whose token is
\* missing or differs from the admin password is answered 401 whatever the
\* datastore would have done, and leaves problems, samples, contest_state,
\* cache and cache_timestamp as they were.
C13_UnauthorizedRefused ==
    (/\ request.op \in AdminOps \cup ProblemAdminOps
     /\ request.token # ADMIN_PASSWORD) =>
        /\ response.code = 401
        /\ Stores = before

\* a delete of a stored problem with a wrong token, at a moment the
\* datastore gives no connection: 401, the problem and the cache still there
C13_Witness ==
    /\ request.op = "admin_delete_problem"
    /\ request.token = "guess"
    /\ request.db = "no_connection"
    /\ \E p \in before.problems : p.id = params.problem_id
    /\ before.contest_state # {}
    /\ DOMAIN before.cache # {}
    /\ response.code = 401
    /\ Stores = before

ProblemReadOps == {"get_all_problems", "get_problem"}

\* the cache key of the last request, a problem read
read_key ==
    IF request.op = "get_all_problems" THEN "all_problems"
    ELSE cache_key(params.problem_id)

\* what the datastore holds for that key
stored_value ==
    IF request.op = "get_all_problems" THEN list_problems(problems)
    ELSE problem_dict(CHOOSE p \in problems : p.id = params.problem_id,
                      samples)

\* that read found an entry under its key, cached age_of_entry ticks earlier
\* and not cleared since
found_cached ==
    /\ request.op \in ProblemReadOps
    /\ read_key \in DOMAIN before.cache
    /\ read_key \in DOMAIN before.cache_timestamp

age_of_entry == now - before.cache_timestamp[read_key]

\* C14: a read that finds an entry under its key less than 3600 seconds old
\* answers that entry, whatever the datastore would do, and leaves cache and
\* datastore alone; one that finds it 3600 seconds old or older goes to the
\* datastore: it answers what the datastore holds and puts it in the cache
\* at the time of the read, or answers 500 when the datastore fails.
C14_CacheTtl ==
    found_cached =>
        /\ age_of_entry < 3600 * TicksPerSecond =>
               /\ response.code = 200
               /\ body = before.cache[read_key]
               /\ Stores = before
        /\ (age_of_entry >= 3600 * TicksPerSecond /\ request.db = "ok") =>
               /\ response.code = 200
               /\ body = stored_value
               /\ cache[read_key] = stored_value
               /\ cache_timestamp[read_key] = now
        /\ (age_of_entry >= 3600 * TicksPerSecond /\ request.db # "ok") =>
               /\ response.code = 500
               /\ Stores = before

\* a problem read exactly 3600 seconds after its entry was cached, some time
\* after start-up: a miss, the entry cached anew
C14_Witness ==
    /\ found_cached
    /\ request.op = "get_problem"
    /\ Served("get_problem")
    /\ before.cache_timestamp[read_key] > 0
    /\ age_of_entry = 3600 * TicksPerSecond
    /\ response.code = 200
    /\ cache_timestamp[read_key] = now
    /\ body = stored_value

\* C15: when an upsert, update or delete of a problem has succeeded, cache
\* and cache_timestamp are empty, whichever problem it was for and whether
\* or not the delete found a row.
C15_MutationClearsCache ==
    (request.op \in ProblemAdminOps /\ response.code = 200) =>
        /\ DOMAIN cache = {}
        /\ DOMAIN cache_timestamp = {}

\* a delete of a problem that is not stored, the list and the other problem
\* cached: success, no row gone, the cache empty
C15_Witness ==
    /\ request.op = "admin_delete_problem"
    /\ response.code = 200
    /\ ~\E p \in before.problems : p.id = params.problem_id
    /\ {"all_problems", "problem_P1"} \subseteq DOMAIN before.cache
    /\ problems = before.problems
    /\ samples = before.samples
    /\ DOMAIN cache = {}
    /\ DOMAIN cache_timestamp = {}

\* the stored rows of problem id among rows
rows_of(rows, id) == {p \in rows : p.id = id}

\* the tables hold for problem id exactly what data describes
holds_payload(problem_rows, sample_rows, id, data) ==
    /\ rows_of(problem_rows, id) = {values_row(id, data)}
    /\ samples_json(sample_rows, id) = data.samples

\* C16: after a successful upsert the problem row has the fields of the
\* payload and the samples of the problem are the list of the payload, in
\* its order, whatever was stored before; so an upsert of the data the
\* tables already hold for that id, as after a first identical call, changes
\* neither the problems nor the sample list of that id.
C16_UpsertIdempotent ==
    (request.op = "admin_add_problem" /\ response.code = 200) =>
        /\ holds_payload(problems, samples, params.problem_id, params.data)
        /\ holds_payload(before.problems, before.samples,
                         params.problem_id, params.data) =>
               /\ problems = before.problems
               /\ samples_json(samples, params.problem_id) =
                      samples_json(before.samples, params.problem_id)

\* the second of two identical upserts of a problem with two samples
C16_Witness ==
    /\ request.op = "admin_add_problem"
    /\ response.code = 200
    /\ Len(params.data.samples) = 2
    /\ holds_payload(before.problems, before.samples,
                     params.problem_id, params.data)
    /\ holds_payload(problems, samples, params.problem_id, params.data)
    /\ Len(samples_json(samples, params.problem_id)) = 2

\* the statements of the transaction of the last request, a problem mutation
statements_of_request ==
    CASE request.op = "admin_add_problem" -> UpsertStatements
      [] request.op = "admin_update_problem" -> UpdateStatements
      [] request.op = "admin_delete_problem" -> DeleteStatements

\* one of those statements, or the commit, raised
statement_failed ==
    /\ request.db = "query_error"
    /\ params.fail_at \in 1..(Len(statements_of_request) + 1)
    /\ params.fail_at <= Len(statements_of_request) =>
           ~skipped(statements_of_request[params.fail_at], params.data)

\* the sample list the request asked to be stored for its problem
samples_requested ==
    IF request.op = "admin_delete_problem" THEN <<>> ELSE params.data.samples

\* C17: a problem mutation in which a statement or the commit fails answers
\* 500; a mutation that does not answer 200 leaves problems and samples
\* exactly as they were; and the tables differ from what they were only
\* with the samples of the problem replaced in full, so no state shows the
\* problem written and the samples part-way.
C17_AtomicMutation ==
    request.op \in ProblemAdminOps =>
        /\ (check_admin_token(request.token) /\ statement_failed) =>
               response.code = 500
        /\ response.code # 200 =>
               /\ problems = before.problems
               /\ samples = before.samples
        /\ (problems # before.problems \/ samples # before.samples) =>
               /\ response.code = 200
               /\ samples_json(samples, params.problem_id) =
                      samples_requested

\* an upsert of new fields and new samples over a stored problem fails at
\* the INSERT of the samples, after the problem row was rewritten and its
\* samples deleted: 500, both tables as before
C17_Witness ==
    /\ request.op = "admin_add_problem"
    /\ statement_failed
    /\ params.fail_at = 3
    /\ rows_of(before.problems, params.problem_id) # {}
    /\ rows_of(before.problems, params.problem_id) #
           {values_row(params.problem_id, params.data)}
    /\ samples_json(before.samples, params.problem_id) # <<>>
    /\ response.code = 500
    /\ problems = before.problems
    /\ samples = before.samples

ids_of(rows) == {p.id : p \in rows}

\* C19: an update of a problem id that has no row leaves the set of problem
\* ids as it was, whether it answers 200 or 500; a successful upsert of an
\* id that has no row adds that id.
C19_UpdateCreatesNoRow ==
    /\ (/\ request.op = "admin_update_problem"
        /\ params.problem_id \notin ids_of(before.problems)) =>
           /\ ids_of(problems) = ids_of(before.problems)
           /\ problems = before.problems
    /\ (/\ request.op = "admin_add_problem"
        /\ response.code = 200
        /\ params.problem_id \notin ids_of(before.problems)) =>
           ids_of(problems) = ids_of(before.problems) \cup {params.problem_id}

\* an update of a problem that is not stored, with no samples: success, and
\* still no such problem
C19_Witness ==
    /\ request.op = "admin_update_problem"
    /\ params.problem_id \notin ids_of(before.problems)
    /\ before.problems # {}
    /\ response.code = 200
    /\ params.problem_id \notin ids_of(problems)
    /\ problems = before.problems

\* the request that committed last
last_committer == committed[Len(committed)]

\* C18: of two upserts of one problem with different bodies, served side by
\* side, the tables hold for the problem, from the first commit on, the
\* fields and the sample list of the body of whichever committed last:
\* never the fields of one with the samples of the other, never the samples
\* of both.
C18_LastCommitterWins ==
    committed # <<>> =>
        holds_payload(problems, samples, RaceId,
                      inflight[last_committer].data)

\* both have committed, the second after waiting for the first; their
\* bodies differ in fields and in samples, and the samples of the first are
\* gone
C18_Witness ==
    /\ Len(committed) = 2
    /\ inflight[last_committer].waited
    /\ inflight[1].data.title # inflight[2].data.title
    /\ inflight[1].data.samples # <<>>
    /\ inflight[2].data.samples # <<>>
    /\ inflight[1].data.samples # inflight[2].data.samples
    /\ holds_payload(problems, samples, RaceId,
                     inflight[last_committer].data)

\* C21: every stored sample is the sample of a stored problem, in every
\* state any sequence of upserts, updates and deletes reaches.  An update
\* with samples for an id that has no problem answers 500 and stores none
\* of them; a delete the datastore serves answers 200 and leaves neither
\* the problem nor a sample of it.
C21_SamplesOwned ==
    /\ \A k \in 1..Len(samples) : samples[k].problem_id \in ids_of(problems)
    /\ (/\ request.op = "admin_update_problem"
        /\ params.problem_id \notin ids_of(before.problems)
        /\ params.data.samples # <<>>) =>
           /\ response.code = 500
           /\ samples = before.samples
    /\ (request.op = "admin_delete_problem" /\ request.db = "ok") =>
           /\ response.code = 200
           /\ params.problem_id \notin ids_of(problems)
           /\ samples_json(samples, params.problem_id) = <<>>

\* an update with two samples for a problem that is not stored, served by
\* the datastore: refused, and the samples of the stored problem are all
\* there is
C21_Witness ==
    /\ request.op = "admin_update_problem"
    /\ request.db = "ok"
    /\ params.problem_id \notin ids_of(before.problems)
    /\ Len(params.data.samples) = 2
    /\ before.samples # <<>>
    /\ response.code = 500
    /\ samples = before.samples
    /\ \A k \in 1..Len(samples) : samples[k].problem_id # params.problem_id

\* C22: the poll writes running only onto a stored row that is pending with
\* start_time <= now, and ended only onto a stored row that is running with
\* end_time <= now, the stored row being the one its UPDATE finds: what an
\* admin request committed after the poll read the row is not overridden by
\* the transition the poll decided on before.
C22_PollWritesCurrentRow ==
    [][\A p \in Pollers :
           (/\ inflight[p].pc = SelectedPc
            /\ inflight'[p].pc = PolledPc
            /\ contest_state' # contest_state) =>
               /\ contest_row # {}
               /\ the_contest'.status = "running" =>
                      /\ the_contest.status = "pending"
                      /\ start_passed(the_contest)
               /\ the_contest'.status = "ended" =>
                      /\ the_contest.status = "running"
                      /\ end_passed(the_contest)]_vars

\* what the datastore returns now for a cache key: the rows of the list,
\* or the set of the one problem with its samples, empty if it is not stored
returned_for(key) ==
    IF key = "all_problems" THEN {list_problems(problems)}
    ELSE {problem_dict(r, samples) :
              r \in {q \in problems : cache_key(q.id) = key}}

\* C23: whenever no read is between its query and its store, each cache
\* entry that has not expired is what the datastore returns for its key
\* now: a read that queried before a mutation committed leaves nothing of
\* what it got in the cache the mutation cleared.
C23_CacheCoherent ==
    (\A p \in Readers : inflight[p].pc # QueriedPc) =>
        \A key \in DOMAIN cache :
            cache_fresh(key) => cache[key] \in returned_for(key)

\* the stored contest is ended
contest_ended == contest_row # {} /\ the_contest.status = "ended"

\* C24: once a contest was scheduled or started and the admin makes no
\* further request, with time advancing and the poll served again and
\* again, the stored status becomes ended and stays ended.  A poll at
\* now >= end_time ends a running contest, and leaves a pending one ended
\* or running with the end passed, so that the next poll ends it: two polls
\* at most from pending, one from running.
C24_EventuallyEnded ==
    /\ \/ [](contest_row = {})
       \/ []<>(request.op \in AdminOps)
       \/ <>[]contest_ended
    /\ [](Served("get_last_update") /\ before.contest_state # {} =>
            /\ (found.status = "running" /\ end_passed(found)) =>
                   contest_ended
            /\ (found.status = "pending" /\ end_passed(found)) =>
                   \/ contest_ended
                   \/ /\ the_contest.status = "running"
                      /\ end_passed(the_contest))

\* the second of two polls at one time, the end_time of a scheduled contest
\* behind: the first found it pending and stored running, this one ended it
C24_Witness ==
    /\ Served("get_last_update")
    /\ before.contest_state # {}
    /\ found.status = "running"
    /\ found.updated_at = now
    /\ found.start_time + timedelta(1) = found.end_time
    /\ found.end_time < now
    /\ contest_ended
    /\ the_contest.updated_at = now

\* C25: a handler that took a connection has given it back by the time it
\* has responded, whatever path it took, so between requests no connection
\* of the pool is out and the pool is not exhausted by requests that have
\* completed.
C25_PoolBalanced == checked_out = 0

====
